---- MODULE Spec2Model ----
(***************************************************************************)
(* The log-structured key-value store of rust/project02/src/kv.rs.         *)
(*                                                                         *)
(* A store directory is a map from file names to byte sequences.  A byte   *)
(* is a one-character string, a file name and a file's content are         *)
(* sequences of bytes.  Byte offsets are 0-based as in the source: the     *)
(* byte at offset p of a content b is b[p + 1].                            *)
(***************************************************************************)
EXTENDS Integers, Sequences, FiniteSets, TLC

VARIABLES
    dir,                 \* the directory: file name -> content
    opened,              \* TRUE while a KvStore instance is alive
    store,               \* KvStore.store: generation -> reader handle
    index,               \* KvStore.index: key -> CommandPos
    log,                 \* KvStore.log: the positioned writer
    current_generation,  \* KvStore.current_generation
    last,                \* the last call made and what it returned
    applied,             \* history: <<generation, command>> of every successful set/remove
    failed,              \* history: the number of set/remove calls whose flush failed
    dropped              \* history: the Index the last dropped instance held

vars == <<dir, opened, store, index, log, current_generation, last, applied,
          failed, dropped>>

----------------------------------------------------------------------------
(* Bounds and inputs *)

MaxGen == 3        \* opens per behaviour
MaxRecords == 3    \* set/remove calls that write, per behaviour
MaxFailures == 1   \* set/remove calls whose flush fails, per behaviour

Keys == {<<"a">>, <<"b">>}
\* the second value needs escaping and makes record lengths differ
Values == {<<"1">>, <<"2", "\"">>}

----------------------------------------------------------------------------
(* Maps with a changing domain (HashMap / BTreeMap) *)

EmptyMap == [x \in {} |-> 0]

Put(f, k, v) == [x \in (DOMAIN f) \cup {k} |-> IF x = k THEN v ELSE f[x]]

Del(f, k) == [x \in (DOMAIN f) \ {k} |-> f[x]]

----------------------------------------------------------------------------
(* Command and its serde_json encoding *)

CmdSet(key, value) == [type |-> "Set", key |-> key, value |-> value]

CmdRemove(key) == [type |-> "Remove", key |-> key, value |-> <<>>]

Quote == "\""
Backslash == "\\"

\* {"Set":{"key":"
SetPrefix == <<"{", Quote, "S", "e", "t", Quote, ":", "{", Quote, "k", "e", "y", Quote, ":", Quote>>

\* ,"value":"   (follows the key's closing quote)
ValueField == <<",", Quote, "v", "a", "l", "u", "e", Quote, ":", Quote>>

\* {"Remove":{"key":"
RemovePrefix == <<"{", Quote, "R", "e", "m", "o", "v", "e", Quote, ":", "{", Quote, "k", "e", "y", Quote, ":", Quote>>

\* }}   (follows the last string's closing quote)
CmdSuffix == <<"}", "}">>

\* variant: no escaping
Escape_none(s) == s

\* JSON string escaping of the characters the inputs use
RECURSIVE Escape(_)
Escape(s) ==
    IF s = <<>> THEN <<>>
    ELSE IF Head(s) \in {Quote, Backslash}
         THEN <<Backslash, Head(s)>> \o Escape(Tail(s))
         ELSE <<Head(s)>> \o Escape(Tail(s))

Encode(cmd) ==
    IF cmd.type = "Set"
    THEN SetPrefix \o Escape(cmd.key) \o <<Quote>> \o ValueField
            \o Escape(cmd.value) \o <<Quote>> \o CmdSuffix
    ELSE RemovePrefix \o Escape(cmd.key) \o <<Quote>> \o CmdSuffix

HasPrefixAt(b, i, p) ==
    /\ i + Len(p) - 1 <= Len(b)
    /\ SubSeq(b, i, i + Len(p) - 1) = p

DecodeFail == [ok |-> FALSE, cmd |-> CmdRemove(<<>>), next |-> 0]

\* Reads a JSON string body starting at b[i] (just after the opening quote);
\* next is the index just after the closing quote.
RECURSIVE ParseStr(_, _, _)
ParseStr(b, i, acc) ==
    IF i > Len(b) THEN [ok |-> FALSE, str |-> <<>>, next |-> 0]
    ELSE IF b[i] = Quote THEN [ok |-> TRUE, str |-> acc, next |-> i + 1]
    ELSE IF b[i] = Backslash
         THEN IF i + 1 <= Len(b) /\ b[i + 1] \in {Quote, Backslash}
              THEN ParseStr(b, i + 2, Append(acc, b[i + 1]))
              ELSE [ok |-> FALSE, str |-> <<>>, next |-> 0]
    ELSE ParseStr(b, i + 1, Append(acc, b[i]))

\* Decodes one Command starting at b[i]; next is the index just after it.
\* Bytes that are not the compact encoding of a Command are a syntax error.
DecodeAt(b, i) ==
    IF HasPrefixAt(b, i, SetPrefix)
    THEN LET k == ParseStr(b, i + Len(SetPrefix), <<>>)
         IN  IF ~k.ok \/ ~HasPrefixAt(b, k.next, ValueField) THEN DecodeFail
             ELSE LET v == ParseStr(b, k.next + Len(ValueField), <<>>)
                  IN  IF ~v.ok \/ ~HasPrefixAt(b, v.next, CmdSuffix) THEN DecodeFail
                      ELSE [ok |-> TRUE, cmd |-> CmdSet(k.str, v.str),
                            next |-> v.next + Len(CmdSuffix)]
    ELSE IF HasPrefixAt(b, i, RemovePrefix)
    THEN LET k == ParseStr(b, i + Len(RemovePrefix), <<>>)
         IN  IF ~k.ok \/ ~HasPrefixAt(b, k.next, CmdSuffix) THEN DecodeFail
             ELSE [ok |-> TRUE, cmd |-> CmdRemove(k.str),
                   next |-> k.next + Len(CmdSuffix)]
    ELSE DecodeFail

----------------------------------------------------------------------------
(* Segment files *)

Digit == <<"0", "1", "2", "3", "4", "5", "6", "7", "8", "9">>

DigitChars == {Digit[i] : i \in 1..10}

DigitValue(c) == (CHOOSE i \in 1..10 : Digit[i] = c) - 1

\* the decimal digits of n, most significant first
RECURSIVE Decimal(_)
Decimal(n) ==
    IF n < 10 THEN <<Digit[n + 1]>>
    ELSE Append(Decimal(n \div 10), Digit[(n % 10) + 1])

RECURSIVE ZeroPad(_, _)
ZeroPad(s, width) == IF Len(s) >= width THEN s ELSE ZeroPad(<<"0">> \o s, width)

LogExt == <<".", "l", "o", "g">>

\* format!("{:016}.log", gen)
log_path(gen) == ZeroPad(Decimal(gen), 16) \o LogExt

HasLogExtension(name) ==
    /\ Len(name) > Len(LogExt)
    /\ SubSeq(name, Len(name) - Len(LogExt) + 1, Len(name)) = LogExt

\* str::trim_end_matches(".log")
RECURSIVE TrimLog(_)
TrimLog(s) ==
    IF Len(s) >= Len(LogExt) /\ SubSeq(s, Len(s) - Len(LogExt) + 1, Len(s)) = LogExt
    THEN TrimLog(SubSeq(s, 1, Len(s) - Len(LogExt)))
    ELSE s

RECURSIVE DigitsValue(_, _)
DigitsValue(s, acc) ==
    IF s = <<>> THEN acc ELSE DigitsValue(Tail(s), acc * 10 + DigitValue(Head(s)))

\* str::parse::<u64>: an optional '+', then one or more decimal digits.
\* The names of the model carry generations far below 2^64.
ParseU64(s) ==
    LET d == IF s # <<>> /\ Head(s) = "+" THEN Tail(s) ELSE s
    IN  IF d # <<>> /\ \A i \in 1..Len(d) : d[i] \in DigitChars
        THEN [ok |-> TRUE, val |-> DigitsValue(d, 0)]
        ELSE [ok |-> FALSE, val |-> 0]

\* inserts x into the ascending sequence s
RECURSIVE InsertSorted(_, _)
InsertSorted(s, x) ==
    IF s = <<>> THEN <<x>>
    ELSE IF x <= Head(s) THEN <<x>> \o s
    ELSE <<Head(s)>> \o InsertSorted(Tail(s), x)

\* the generations parsed from a set of file names, ascending
RECURSIVE GensOf(_)
GensOf(names) ==
    IF names = {} THEN <<>>
    ELSE LET n == CHOOSE x \in names : TRUE
             g == ParseU64(TrimLog(n))
             rest == GensOf(names \ {n})
         IN  IF HasLogExtension(n) /\ g.ok THEN InsertSorted(rest, g.val) ELSE rest

sorted_gen_list(d) == GensOf(DOMAIN d)

\* the files sorted_gen_list takes a generation from
SegmentFiles(d) ==
    {n \in DOMAIN d : HasLogExtension(n) /\ ParseU64(TrimLog(n)).ok}

----------------------------------------------------------------------------
(* Handles *)

\* File::open: read-only.  File::create: write-only.
Reader(name, pos, readable) == [file |-> name, pos |-> pos, readable |-> readable]

\* BufWriterWithPos: pos counts the bytes accepted, buf holds those not yet flushed
Writer(name, pos, buf) == [file |-> name, pos |-> pos, buf |-> buf]

NoWriter == Writer(<<>>, 0, <<>>)

\* From<(u64, Range<u64>)> for CommandPos
CommandPos(gen, start, end) == [gen |-> gen, pos |-> start, len |-> end - start]

----------------------------------------------------------------------------
(* Results of calls *)

Ok == [kind |-> "Ok", val |-> <<>>, err |-> ""]
Some(v) == [kind |-> "Some", val |-> v, err |-> ""]
None == [kind |-> "None", val |-> <<>>, err |-> ""]
Err(e) == [kind |-> "Err", val |-> <<>>, err |-> e]
Panic(msg) == [kind |-> "Panic", val |-> <<>>, err |-> msg]

Call(op, key, val, res) == [op |-> op, key |-> key, val |-> val, res |-> res]

----------------------------------------------------------------------------
(* Replay *)

\* variant: pos is not advanced after a command
RECURSIVE load_stale_pos(_, _, _, _, _)
load_stale_pos(gen, b, start, pos, idx) ==
    IF pos >= Len(b) THEN [res |-> Ok, index |-> idx]
    ELSE LET d == DecodeAt(b, pos + 1)
             new_pos == d.next - 1
         IN  IF ~d.ok THEN [res |-> Err("Serde"), index |-> idx]
             ELSE IF d.cmd.type = "Set"
             THEN load_stale_pos(gen, b, start, new_pos,
                                 Put(idx, d.cmd.key, CommandPos(gen, start, new_pos)))
             ELSE IF d.cmd.key \in DOMAIN idx
             THEN load_stale_pos(gen, b, start, new_pos, Del(idx, d.cmd.key))
             ELSE [res |-> Panic("key not in log file"), index |-> idx]

load_from_start(gen, b, pos, idx) == load_stale_pos(gen, b, pos, pos, idx)

\* variant: a Remove of a key that is not in the Index is skipped
RECURSIVE load_skips_orphan(_, _, _, _)
load_skips_orphan(gen, b, pos, idx) ==
    IF pos >= Len(b) THEN [res |-> Ok, index |-> idx]
    ELSE LET d == DecodeAt(b, pos + 1)
             new_pos == d.next - 1
         IN  IF ~d.ok THEN [res |-> Err("Serde"), index |-> idx]
             ELSE IF d.cmd.type = "Set"
             THEN load_skips_orphan(gen, b, new_pos,
                                    Put(idx, d.cmd.key, CommandPos(gen, pos, new_pos)))
             ELSE load_skips_orphan(gen, b, new_pos, Del(idx, d.cmd.key))

\* load: decodes the commands of content b from offset pos on into idx
RECURSIVE load(_, _, _, _)
load(gen, b, pos, idx) ==
    IF pos >= Len(b) THEN [res |-> Ok, index |-> idx]
    ELSE LET d == DecodeAt(b, pos + 1)
             new_pos == d.next - 1
         IN  IF ~d.ok THEN [res |-> Err("Serde"), index |-> idx]
             ELSE IF d.cmd.type = "Set"
             THEN load(gen, b, new_pos, Put(idx, d.cmd.key, CommandPos(gen, pos, new_pos)))
             ELSE IF d.cmd.key \in DOMAIN idx
             THEN load(gen, b, new_pos, Del(idx, d.cmd.key))
             ELSE [res |-> Panic("key not in log file"), index |-> idx]

\* variant: the readers of the replayed generations are not kept
RECURSIVE OpenLoop_no_readers(_, _, _, _, _)
OpenLoop_no_readers(d, gen_list, i, st, idx) ==
    IF i > Len(gen_list) THEN [res |-> Ok, store |-> st, index |-> idx]
    ELSE LET gen == gen_list[i]
             name == log_path(gen)
         IN  IF name \notin DOMAIN d THEN [res |-> Err("Io"), store |-> st, index |-> idx]
             ELSE LET l == load(gen, d[name], 0, idx)
                  IN  IF l.res # Ok THEN [res |-> l.res, store |-> st, index |-> idx]
                      ELSE OpenLoop_no_readers(d, gen_list, i + 1, st, l.index)

\* the for loop of open over gen_list[i..]
RECURSIVE OpenLoop(_, _, _, _, _)
OpenLoop(d, gen_list, i, st, idx) ==
    IF i > Len(gen_list) THEN [res |-> Ok, store |-> st, index |-> idx]
    ELSE LET gen == gen_list[i]
             name == log_path(gen)
         IN  IF name \notin DOMAIN d THEN [res |-> Err("Io"), store |-> st, index |-> idx]
             ELSE LET l == load(gen, d[name], 0, idx)
                  IN  IF l.res # Ok THEN [res |-> l.res, store |-> st, index |-> idx]
                      ELSE OpenLoop(d, gen_list, i + 1,
                                    Put(st, gen, Reader(name, Len(d[name]), TRUE)),
                                    l.index)

\* variant: the first generation of the list instead of the last
NextGeneration_first(gen_list) ==
    IF gen_list = <<>> THEN 1 ELSE gen_list[1] + 1

\* variant: the last generation itself, without the increment
NextGeneration_no_increment(gen_list) ==
    IF gen_list = <<>> THEN 1 ELSE gen_list[Len(gen_list)]

\* gen_list.last().unwrap_or(&0) + 1
NextGeneration(gen_list) ==
    IF gen_list = <<>> THEN 1 ELSE gen_list[Len(gen_list)] + 1

----------------------------------------------------------------------------
(* The positioned writer *)

\* variant: pos counts the records, not their bytes
WriteBytes_counts_records(w, bytes) == Writer(w.file, w.pos + 1, w.buf \o bytes)

\* serde_json::to_writer through BufWriterWithPos::write: the bytes go to the
\* buffer and pos advances by their number
WriteBytes(w, bytes) == Writer(w.file, w.pos + Len(bytes), w.buf \o bytes)

\* variant: the flush is missing
FlushedDir_no_flush(d, w) == d

\* BufWriterWithPos::flush on a file opened with append(true): the buffered
\* bytes go to the end of the file
FlushedDir(d, w) == Put(d, w.file, d[w.file] \o w.buf)

FlushedWriter(w) == Writer(w.file, w.pos, <<>>)

----------------------------------------------------------------------------
(* get *)

Min(a, b) == IF a <= b THEN a ELSE b

\* reader.take(cmd.len) after reader.seek(SeekFrom::Start(cmd.pos))
TakeBytes(d, reader, cmd) ==
    SubSeq(d[reader.file], cmd.pos + 1, Min(cmd.pos + cmd.len, Len(d[reader.file])))

\* serde_json::from_reader: one Command and nothing after it
FromReader(bytes) ==
    LET dec == DecodeAt(bytes, 1)
    IN  IF dec.ok /\ dec.next = Len(bytes) + 1 THEN dec ELSE DecodeFail

\* what get returns for a key the Index maps to cmd.  An error of serde_json,
\* the I/O error of its reader included, is Err("Serde").
ReadValue(cmd) ==
    IF cmd.gen \notin DOMAIN store THEN Panic("Can not get reader by cmd.gen")
    ELSE LET reader == store[cmd.gen]
             dec == FromReader(TakeBytes(dir, reader, cmd))
         IN  IF ~reader.readable THEN Err("Serde")
             ELSE IF ~dec.ok THEN Err("Serde")
             ELSE IF dec.cmd.type = "Set" THEN Some(dec.cmd.value)
             ELSE Err("UnexpectedCommandType")

\* variant: a key that is not in the Index is an error
GetResult_absent_is_error(key) ==
    IF key \notin DOMAIN index THEN Err("KeyNotFound") ELSE ReadValue(index[key])

\* what get(key) returns in the current state
GetResult(key) ==
    IF key \notin DOMAIN index THEN None ELSE ReadValue(index[key])

\* the read positions get(key) can leave the reader of cmd.gen at
GetPositions(key) ==
    LET cmd == index[key]
        reader == store[cmd.gen]
        avail == Len(TakeBytes(dir, reader, cmd))
    IN  IF ~reader.readable THEN {cmd.pos}
        ELSE IF FromReader(TakeBytes(dir, reader, cmd)).ok THEN {cmd.pos + avail}
        ELSE cmd.pos .. (cmd.pos + avail)

----------------------------------------------------------------------------
(* The state machine *)

Init ==
    /\ dir = EmptyMap
    /\ opened = FALSE
    /\ store = EmptyMap
    /\ index = EmptyMap
    /\ log = NoWriter
    /\ current_generation = 0
    /\ last = Call("none", <<>>, <<>>, Ok)
    /\ applied = <<>>
    /\ failed = 0
    /\ dropped = EmptyMap

\* the reader open registers for the active generation: File::create
ActiveReader(name) == Reader(name, 0, FALSE)

\* KvStore::open
Open ==
    /\ ~opened
    /\ Cardinality(SegmentFiles(dir)) < MaxGen
    /\ LET gen_list == sorted_gen_list(dir)
           r == OpenLoop(dir, gen_list, 1, EmptyMap, EmptyMap)
           gen == NextGeneration(gen_list)
           name == log_path(gen)
       IN  IF r.res # Ok
           THEN /\ last' = Call("open", <<>>, <<>>, r.res)
                /\ UNCHANGED <<dir, opened, store, index, log, current_generation,
                               applied, failed, dropped>>
           ELSE /\ dir' = Put(dir, name, <<>>)
                /\ store' = Put(r.store, gen, ActiveReader(name))
                /\ index' = r.index
                /\ log' = Writer(name, 0, <<>>)
                /\ current_generation' = gen
                /\ opened' = TRUE
                /\ last' = Call("open", <<>>, <<>>, Ok)
                /\ UNCHANGED <<applied, failed, dropped>>

\* the instance goes out of scope: the BufWriter flushes, the handles close
Drop ==
    /\ opened
    /\ dir' = FlushedDir(dir, log)
    /\ opened' = FALSE
    /\ store' = EmptyMap
    /\ index' = EmptyMap
    /\ log' = NoWriter
    /\ current_generation' = 0
    /\ last' = Call("drop", <<>>, <<>>, Ok)
    /\ dropped' = index
    /\ UNCHANGED <<applied, failed>>

\* variant: the end offset is recorded as the length
set_index_end_as_len(idx, key, gen, pos, end) ==
    Put(idx, key, [gen |-> gen, pos |-> pos, len |-> end])

\* set: self.index.insert(key, (self.current_generation, pos..self.log.pos).into())
set_index(idx, key, gen, pos, end) == Put(idx, key, CommandPos(gen, pos, end))

\* variant: remove does not test the key
contains_key_always(idx, key) == TRUE

\* remove: self.index.contains_key(&key)
contains_key(idx, key) == key \in DOMAIN idx

\* variant: remove leaves the Index entry in place
remove_index_keeps(idx, key) == idx

\* remove: self.index.remove(&key)
remove_index(idx, key) == Del(idx, key)

\* KvStore::set
Set(key, val) ==
    /\ opened
    /\ Len(applied) + failed < MaxRecords
    /\ LET pos == log.pos
           cmd == CmdSet(key, val)
           w == WriteBytes(log, Encode(cmd))
       IN  /\ dir' = FlushedDir(dir, w)
           /\ log' = FlushedWriter(w)
           /\ index' = set_index(index, key, current_generation, pos, w.pos)
           /\ last' = Call("set", key, val, Ok)
           /\ applied' = Append(applied, <<current_generation, cmd>>)
    /\ UNCHANGED <<opened, store, current_generation, failed, dropped>>

\* variant: a get that cannot read the record drops the key's Index entry
Get_evicts(key) ==
    /\ opened
    /\ last' = Call("get", key, <<>>, GetResult(key))
    /\ IF key \in DOMAIN index /\ index[key].gen \in DOMAIN store
       THEN \E p \in GetPositions(key) :
                store' = [store EXCEPT ![index[key].gen].pos = p]
       ELSE UNCHANGED store
    /\ index' = IF GetResult(key).kind = "Err" THEN Del(index, key) ELSE index
    /\ UNCHANGED <<dir, opened, log, current_generation, applied, failed, dropped>>

\* KvStore::get
Get(key) ==
    /\ opened
    /\ last' = Call("get", key, <<>>, GetResult(key))
    /\ IF key \in DOMAIN index /\ index[key].gen \in DOMAIN store
       THEN \E p \in GetPositions(key) :
                store' = [store EXCEPT ![index[key].gen].pos = p]
       ELSE UNCHANGED store
    /\ UNCHANGED <<dir, opened, index, log, current_generation, applied,
                   failed, dropped>>

\* KvStore::remove
Remove(key) ==
    /\ opened
    /\ IF contains_key(index, key)
       THEN /\ Len(applied) + failed < MaxRecords
            /\ LET cmd == CmdRemove(key)
                   w == WriteBytes(log, Encode(cmd))
               IN  /\ dir' = FlushedDir(dir, w)
                   /\ log' = FlushedWriter(w)
                   /\ index' = remove_index(index, key)
                   /\ last' = Call("remove", key, <<>>, Ok)
                   /\ applied' = Append(applied, <<current_generation, cmd>>)
       ELSE /\ last' = Call("remove", key, <<>>, Err("KeyNotFound"))
            /\ UNCHANGED <<dir, log, index, applied>>
    /\ UNCHANGED <<opened, store, current_generation, failed, dropped>>

Next ==
    \/ Open
    \/ Drop
    \/ \E key \in Keys, val \in Values : Set(key, val)
    \/ \E key \in Keys : Get(key)
    \/ \E key \in Keys : Remove(key)

Spec == Init /\ [][Next]_vars

----------------------------------------------------------------------------
(* Flush failures *)

\* KvStore::set when self.log.flush() fails: to_writer has put the record in
\* the BufWriter, which keeps it; the ? returns before the Index is touched.
\* A record is smaller than the BufWriter's capacity, so to_writer itself
\* does no I/O, and the failed flush is taken to have written nothing.
SetFlushFails(key, val) ==
    /\ opened
    /\ failed < MaxFailures
    /\ Len(applied) + failed < MaxRecords
    /\ log' = WriteBytes(log, Encode(CmdSet(key, val)))
    /\ last' = Call("set", key, val, Err("Io"))
    /\ failed' = failed + 1
    /\ UNCHANGED <<dir, opened, store, index, current_generation, applied, dropped>>

\* KvStore::remove when self.log.flush() fails
RemoveFlushFails(key) ==
    /\ opened
    /\ contains_key(index, key)
    /\ failed < MaxFailures
    /\ Len(applied) + failed < MaxRecords
    /\ log' = WriteBytes(log, Encode(CmdRemove(key)))
    /\ last' = Call("remove", key, <<>>, Err("Io"))
    /\ failed' = failed + 1
    /\ UNCHANGED <<dir, opened, store, index, current_generation, applied, dropped>>

\* the values written in the runs with failing flushes
IOValues == {<<"1">>}

NextIO ==
    \/ Open
    \/ Drop
    \/ \E key \in Keys, val \in IOValues : Set(key, val)
    \/ \E key \in Keys : Get(key)
    \/ \E key \in Keys : Remove(key)
    \/ \E key \in Keys, val \in IOValues : SetFlushFails(key, val)
    \/ \E key \in Keys : RemoveFlushFails(key)

\* the store on a file system whose flush can fail
SpecIO == Init /\ [][NextIO]_vars

----------------------------------------------------------------------------
(* Directories that hold other files *)

\* 1.log
Name_1_log == <<"1">> \o LogExt

\* notes.log
Name_notes_log == <<"n", "o", "t", "e", "s">> \o LogExt

\* data.txt
Name_data_txt == <<"d", "a", "t", "a", ".", "t", "x", "t">>

ForeignNames == {Name_1_log, Name_notes_log, Name_data_txt}

\* the store is opened on a directory that already holds some empty files
\* of other names
InitForeign ==
    /\ \E names \in SUBSET ForeignNames : dir = [n \in names |-> <<>>]
    /\ opened = FALSE
    /\ store = EmptyMap
    /\ index = EmptyMap
    /\ log = NoWriter
    /\ current_generation = 0
    /\ last = Call("none", <<>>, <<>>, Ok)
    /\ applied = <<>>
    /\ failed = 0
    /\ dropped = EmptyMap

SpecForeign == InitForeign /\ [][Next]_vars

----------------------------------------------------------------------------
(* What the successful calls so far amount to *)

\* the commands of the successful set/remove calls on key, in call order
RECURSIVE CommandsOn(_, _)
CommandsOn(h, key) ==
    IF h = <<>> THEN <<>>
    ELSE IF Head(h)[2].key = key THEN <<Head(h)[2]>> \o CommandsOn(Tail(h), key)
    ELSE CommandsOn(Tail(h), key)

\* keys some successful set has named
EverSet == {applied[i][2].key : i \in {j \in 1..Len(applied) : applied[j][2].type = "Set"}}

\* the last successful call on key is a remove
Tombstoned(key) ==
    LET c == CommandsOn(applied, key)
    IN  c # <<>> /\ c[Len(c)].type = "Remove"

\* the value of the last set of key if no remove followed it, else absent
Expected(key) ==
    LET c == CommandsOn(applied, key)
    IN  IF c # <<>> /\ c[Len(c)].type = "Set" THEN Some(c[Len(c)].value) ELSE None

\* the file of the active generation
ActiveFile == dir[log_path(current_generation)]

\* the generation a segment file name carries
GenOfName(name) == ParseU64(TrimLog(name)).val

----------------------------------------------------------------------------
(* Claims *)

\* C1: on one open store, a successful set(k, v) immediately followed by
\* get(k) returns Some(v).
C1_SetThenGet ==
    [][(/\ last.op = "set" /\ last.res = Ok
        /\ last'.op = "get" /\ last'.key = last.key)
       => last'.res = Some(last.val)]_vars

\* C2: a drop followed by open yields a store whose get(k) returns, for every
\* key, what it returned just before the drop: the value of the last set of k
\* if no remove of k followed it, otherwise None.
C2_ReopenSameResults ==
    [][/\ (opened /\ ~opened') => \A k \in Keys : GetResult(k) = Expected(k)
       /\ (~opened /\ opened') => \A k \in Keys : GetResult(k)' = Expected(k)]_vars

\* C3: once the last successful call on k is a remove, get(k) returns None
\* and remove(k) fails with KeyNotFound.
C3_Deletion ==
    [][\A k \in Keys :
        (Tombstoned(k) /\ last'.key = k) =>
            /\ last'.op = "get" => last'.res = None
            /\ last'.op = "remove" => last'.res = Err("KeyNotFound")]_vars

W_C3_SecondRemove ==
    /\ opened
    /\ last.op = "remove"
    /\ last.res = Err("KeyNotFound")
    /\ Tombstoned(last.key)

\* C4: after set(k, v1) followed by set(k, v2) on one store, get(k) returns
\* v2, the Index entry of k is the location of the second record, and the
\* bytes of the first record are still in the segment file.
C4_Overwrite ==
    [][(/\ last.op = "set" /\ last'.op = "set" /\ last'.key = last.key
        /\ opened /\ opened')
       => LET k == last.key
              first == index[k]
              second == Encode(CmdSet(k, last'.val))
          IN  /\ GetResult(k)' = Some(last'.val)
              /\ index'[k] = [gen |-> current_generation, pos |-> Len(ActiveFile),
                              len |-> Len(second)]
              /\ SubSeq(ActiveFile', Len(ActiveFile) + 1, Len(ActiveFile')) = second
              /\ SubSeq(ActiveFile', first.pos + 1, first.pos + first.len)
                    = Encode(CmdSet(k, last.val))]_vars

\* C5: remove(k) of a key that is not in the Index returns KeyNotFound and
\* leaves the segment files, the writer and the Index unchanged.
C5_RemoveAbsent ==
    [][\A k \in Keys :
        (opened /\ k \notin DOMAIN index /\ last'.op = "remove" /\ last'.key = k) =>
            /\ last'.res = Err("KeyNotFound")
            /\ dir' = dir
            /\ log' = log
            /\ index' = index]_vars

W_C5_RemoveAbsent ==
    /\ opened
    /\ last.op = "remove"
    /\ last.res = Err("KeyNotFound")
    /\ last.key \notin DOMAIN index
    /\ ActiveFile # <<>>

\* C6: get(k) of a key no set has ever named returns None.
C6_GetNeverSet ==
    (last.op = "get" /\ last.key \notin EverSet) => last.res = None

W_C6_GetNeverSet ==
    /\ last.op = "get"
    /\ last.key \notin EverSet
    /\ EverSet # {}
    /\ current_generation > 1

\* the generations that have a segment file
ExistingGens == {GenOfName(n) : n \in DOMAIN dir}

\* C7: every open takes as active generation max(existing generations) + 1,
\* or 1 when there is no segment file; it creates exactly one file, which did
\* not exist, with a generation above every existing one.
C7_GenerationNumbering ==
    [][(~opened /\ opened') =>
        /\ current_generation' =
              IF ExistingGens = {} THEN 1
              ELSE (CHOOSE g \in ExistingGens : \A h \in ExistingGens : h <= g) + 1
        /\ log_path(current_generation') \notin DOMAIN dir
        /\ DOMAIN dir' = (DOMAIN dir) \cup {log_path(current_generation')}
        /\ Cardinality(DOMAIN dir') = Cardinality(DOMAIN dir) + 1
        /\ \A g \in ExistingGens : g < current_generation']_vars

W_C7_ThirdOpen ==
    /\ opened
    /\ last.op = "open"
    /\ current_generation = 3
    /\ Cardinality(DOMAIN dir) = 3

IsProperPrefix(a, b) == Len(a) < Len(b) /\ SubSeq(b, 1, Len(a)) = a

\* C8: no step removes a segment file, and a step changes a segment file
\* only by a set or remove appending to the file of the active generation,
\* which is the latest one; every file of an earlier generation keeps its
\* content.
C8_RetiredImmutable ==
    [][\A n \in DOMAIN dir :
        /\ n \in DOMAIN dir'
        /\ dir'[n] # dir[n] =>
            /\ opened
            /\ n = log_path(current_generation)
            /\ \A m \in DOMAIN dir : GenOfName(m) <= GenOfName(n)
            /\ last'.op \in {"set", "remove"}
            /\ IsProperPrefix(dir[n], dir'[n])]_vars

W_C8_WriteAfterRetire ==
    /\ opened
    /\ current_generation = 2
    /\ last.op \in {"set", "remove"}
    /\ last.res = Ok
    /\ dir[log_path(1)] # <<>>
    /\ ActiveFile # <<>>

\* the concatenated encodings of the commands applied in generation gen
RECURSIVE RecordsOf(_, _)
RecordsOf(h, gen) ==
    IF h = <<>> THEN <<>>
    ELSE IF Head(h)[1] = gen THEN Encode(Head(h)[2]) \o RecordsOf(Tail(h), gen)
    ELSE RecordsOf(Tail(h), gen)

C10_ActiveReaderReads ==
    opened =>
        /\ current_generation \in DOMAIN store
        /\ store[current_generation].file = log.file
        /\ store[current_generation].readable
        /\ \A k \in DOMAIN index :
              index[k].gen = current_generation => GetResult(k).kind = "Some"

\* the bytes an Index entry names
EntryBytes(e) ==
    IF log_path(e.gen) \notin DOMAIN dir THEN <<>>
    ELSE SubSeq(dir[log_path(e.gen)], e.pos + 1, e.pos + e.len)

\* C11: in every state of a Ready store, the bytes an Index entry of key k
\* names are inside the segment file of the entry's generation and are
\* exactly one Set record of key k; get never returns UnexpectedCommandType.
C11_IndexToLog ==
    /\ opened =>
          \A k \in DOMAIN index :
              /\ log_path(index[k].gen) \in DOMAIN dir
              /\ index[k].pos + index[k].len <= Len(dir[log_path(index[k].gen)])
              /\ \E v \in Values : EntryBytes(index[k]) = Encode(CmdSet(k, v))
    /\ last.res # Err("UnexpectedCommandType")

\* two keys whose records are in different generations, one of them replayed,
\* after a call that failed in between
W_C11_TwoGenerations ==
    /\ opened
    /\ failed > 0
    /\ DOMAIN index = Keys
    /\ \E k \in Keys : index[k].gen < current_generation /\ index[k].pos > 0
    /\ \E k \in Keys : index[k].gen = current_generation

\* every segment file holds exactly the records of the successful calls of
\* its generation
LogHoldsApplied ==
    \A n \in SegmentFiles(dir) : dir[n] = RecordsOf(applied, GenOfName(n))

\* the Index holds exactly the keys whose last successful call is a set
IndexHoldsApplied ==
    opened => DOMAIN index = {k \in Keys : Expected(k) # None}

\* C12: a set or remove whose flush fails returns an error and leaves the
\* Index unchanged, and its command shows neither in the segment files that
\* later flushes write nor in the Index that replay builds on reopen.
C12_NeverPartiallyApplied ==
    [][/\ failed' > failed => (last'.res = Err("Io") /\ index' = index)
       /\ LogHoldsApplied'
       /\ IndexHoldsApplied']_vars

\* the commands in content b from offset pos on, as far as they decode
RECURSIVE CommandsIn(_, _)
CommandsIn(b, pos) ==
    IF pos >= Len(b) THEN <<>>
    ELSE LET d == DecodeAt(b, pos + 1)
         IN  IF ~d.ok THEN <<>> ELSE <<d.cmd>> \o CommandsIn(b, d.next - 1)

\* the concatenated encodings of a sequence of commands
RECURSIVE Encode_all(_)
Encode_all(cmds) ==
    IF cmds = <<>> THEN <<>> ELSE Encode(Head(cmds)) \o Encode_all(Tail(cmds))

\* the commands of the segment files of generations gens[i..], in order
RECURSIVE CommandsOfGens(_, _, _)
CommandsOfGens(d, gens, i) ==
    IF i > Len(gens) THEN <<>>
    ELSE (IF log_path(gens[i]) \in DOMAIN d
          THEN CommandsIn(d[log_path(gens[i])], 0) ELSE <<>>)
         \o CommandsOfGens(d, gens, i + 1)

\* cmds[i] is a Remove and the last earlier command on its key, if any, is
\* a Remove too
IsOrphanRemove(cmds, i) ==
    /\ cmds[i].type = "Remove"
    /\ LET earlier == {j \in 1..(i - 1) : cmds[j].key = cmds[i].key}
       IN  \/ earlier = {}
           \/ cmds[CHOOSE j \in earlier : \A h \in earlier : h <= j].type = "Remove"

HasOrphanRemove(d) ==
    LET cmds == CommandsOfGens(d, sorted_gen_list(d), 1)
    IN  \E i \in 1..Len(cmds) : IsOrphanRemove(cmds, i)

\* C13: an open whose replay meets a Remove of a key that is not in the
\* Index built so far does not yield a store: it panics, and nothing of the
\* directory changes.
C13_ReplayOrphanRemove ==
    [][(~opened /\ last'.op = "open" /\ HasOrphanRemove(dir)) =>
        /\ ~opened'
        /\ last'.res = Panic("key not in log file")
        /\ dir' = dir]_vars

W_C13_OpenPanicked ==
    /\ ~opened
    /\ last.op = "open"
    /\ last.res.kind = "Panic"
    /\ HasOrphanRemove(dir)

\* the generations whose 16-digit segment file exists
CanonicalGens == {g \in 1..(MaxGen + 1) : log_path(g) \in DOMAIN dir}

\* C14: a file whose name is not a 16-digit generation followed by .log
\* neither makes open fail nor influences the generation open takes, and
\* open leaves it alone.
C14_ForeignFilesIgnored ==
    [][(~opened /\ last'.op = "open") =>
        /\ last'.res = Ok
        /\ opened'
        /\ current_generation' =
              IF CanonicalGens = {} THEN 1
              ELSE (CHOOSE g \in CanonicalGens : \A h \in CanonicalGens : h <= g) + 1
        /\ \A n \in (DOMAIN dir) \cap ForeignNames : n \in DOMAIN dir' /\ dir'[n] = dir[n]]_vars

C16_GetReadOnly ==
    [][last'.op = "get" =>
        /\ index' = index
        /\ current_generation' = current_generation
        /\ log' = log
        /\ dir' = dir
        /\ opened' = opened
        /\ DOMAIN store' = DOMAIN store
        /\ \A g \in DOMAIN store :
              /\ store'[g].file = store[g].file
              /\ store'[g].readable = store[g].readable
        /\ Cardinality({g \in DOMAIN store : store'[g].pos # store[g].pos}) <= 1]_vars

\* a get that returned a value and left its reader after the record
W_C16_GetMovedReader ==
    /\ opened
    /\ last.op = "get"
    /\ last.res.kind = "Some"
    /\ last.key \in DOMAIN index
    /\ store[index[last.key].gen].pos = index[last.key].pos + index[last.key].len
    /\ index[last.key].pos > 0

\* C17: on a directory written only by successful set and remove calls,
\* every open completes: replay meets neither a Remove of an absent key nor
\* bytes that do not decode.
C17_ReplayOwnLogs ==
    /\ last.op = "open" => (last.res = Ok /\ opened)
    /\ ~HasOrphanRemove(dir)
    /\ \A n \in SegmentFiles(dir) : Encode_all(CommandsIn(dir[n], 0)) = dir[n]

\* the third open, over logs that hold a Remove and a value that needs
\* escaping
W_C17_ThirdOpen ==
    /\ opened
    /\ last.op = "open"
    /\ current_generation = 3
    /\ \E i \in 1..Len(applied) : applied[i][2].type = "Remove"
    /\ \E i \in 1..Len(applied) : applied[i][2].value = <<"2", Quote>>

\* C18: in every state of a Ready store the reader map holds the active
\* generation and the generation of every Index entry, and get never panics
\* on the reader lookup.
C18_ReaderPerGeneration ==
    /\ opened =>
          /\ current_generation \in DOMAIN store
          /\ \A k \in DOMAIN index : index[k].gen \in DOMAIN store
    /\ last.res.kind # "Panic" \/ last.op # "get"

W_C18_RetiredAndActive ==
    /\ opened
    /\ DOMAIN index = Keys
    /\ \E k \in Keys : index[k].gen < current_generation
    /\ \E k \in Keys : index[k].gen = current_generation
    /\ last.op = "get"

\* C19: after open and after every successful set or remove the writer's
\* offset is the length of the active segment file, 0 right after open, and
\* a successful write advances it by the length of the record it wrote.
C19_WriterOffset ==
    [][/\ (opened' /\ last'.res = Ok /\ last'.op \in {"open", "set", "remove"}) =>
              log'.pos = Len(ActiveFile')
       /\ (~opened /\ opened') => log'.pos = 0
       /\ applied' # applied =>
              log'.pos = log.pos + Len(Encode(applied'[Len(applied')][2]))]_vars

\* a successful write in a second generation, after a failed flush
W_C19_OffsetAfterWrites ==
    /\ opened
    /\ current_generation = 2
    /\ last.op \in {"set", "remove"}
    /\ last.res = Ok
    /\ failed > 0
    /\ log.pos = Len(ActiveFile)
    /\ log.pos > Len(Encode(applied[Len(applied)][2]))

====
